---- MODULE Spec2Model ----
(***************************************************************************)
(* Model of rabble's Node facade (src/node.rs): routing of envelopes to    *)
(* the local process registry or to the cluster channel, registration and  *)
(* removal of routing targets, cluster-control requests and shutdown.      *)
(*                                                                         *)
(* Node is a cloneable handle: all clones share the registry               *)
(* (Processes<T>) and the cluster Sender.  Every operation except shutdown *)
(* is one call on a shared structure and is taken by any thread at any     *)
(* time; shutdown is two calls in a row, so the threads running it have a  *)
(* position (pc) and other operations interleave with them.                *)
(***************************************************************************)
EXTENDS Integers, Sequences, FiniteSets, TLC

\* ------------------------------------------------------------------ bounds
MaxShutdowns == 1    \* threads that can be inside Node::shutdown at once
MaxTargets == 1      \* routing targets (processes / service channels) registered at once
MaxQueued == 1       \* messages callers may have waiting on all channels together

Threads == 1..MaxShutdowns
Targets == 1..MaxTargets

\* ------------------------------------------------------------ value types
SelfId == "n1"                       \* Node.id
NodeIds == {"n1", "n2"}              \* NodeId values seen by this node
PeerIds == NodeIds \ {SelfId}
Names == {"a", "b"}

MkPid(n, s) == [node |-> n, name |-> s]
Pids == {MkPid(n, s) : n \in NodeIds, s \in Names} \ {MkPid("n2", "b")}
LocalPids == {p \in Pids : p.node = SelfId}

\* Option<T> is a sequence of length 0 (None) or 1 (Some)
None == <<>>
Some(x) == <<x>>

CorrelationIds == {[pid |-> MkPid("n1", "a"), handle |-> 1]}

\* Msg<T> variants a caller puts in an envelope (msg.rs)
UserMsgs == {"User"}
ShutdownMsg == "Shutdown"

FromPids == {MkPid("n2", "b")}

Envelopes == [from : FromPids, to : Pids, msg : UserMsgs,
              correlation_id : {Some(c) : c \in CorrelationIds}]

\* The envelope the registry broadcasts to a target on shutdown
ShutdownEnvelope(p) ==
    [from |-> p, to |-> p, msg |-> ShutdownMsg, correlation_id |-> None]

\* ClusterMsg<T> variants
ClusterJoin(n) == [type |-> "Join", node |-> n, cid |-> None, env |-> None]
ClusterLeave(n) == [type |-> "Leave", node |-> n, cid |-> None, env |-> None]
ClusterGetStatus(c) == [type |-> "GetStatus", node |-> "", cid |-> Some(c), env |-> None]
ClusterEnvelope(e) == [type |-> "Envelope", node |-> "", cid |-> None, env |-> Some(e)]
ClusterShutdown == [type |-> "Shutdown", node |-> "", cid |-> None, env |-> None]

VARIABLES
    registry,      \* Processes<T>: set of entries [pid, target]
    inbox,         \* inbox[t]: what the registry's Sender for target t has enqueued
    inbox_open,    \* inbox_open[t]: the receiving end of target t still exists
    cluster_q,     \* contents of the cluster channel (cluster_tx -> cluster server)
    cluster_open,  \* the cluster server still holds the Receiver
    pc,            \* pc[c]: where thread c stands inside Node::shutdown
    told,          \* told[c]: c's running shutdown has enqueued ClusterMsg::Shutdown
    last,          \* the most recent Node operation that returned, and its result
    fifo,          \* who enqueued what on the cluster channel, not yet received
    clones,        \* copies of a Node and the registries and channels they refer to
    timers,        \* the timers of a process and the Timeouts delivered to it
    histo          \* a Histogram, its serialized form and what that deserializes to

\* What the studies of a single component keep beside the Node's own state
side == <<fifo, clones, timers, histo>>
sideButFifo == <<clones, timers, histo>>
sideButClones == <<fifo, timers, histo>>
sideButTimers == <<fifo, clones, histo>>
sideButHisto == <<fifo, clones, timers>>

\* The Node's own state
node == <<registry, inbox, inbox_open, cluster_q, cluster_open, pc, told, last>>

vars == <<registry, inbox, inbox_open, cluster_q, cluster_open,
          pc, told, last, fifo, clones, timers, histo>>

NoPid == MkPid("", "")
NoErr == [msg |-> <<>>, pid |-> None]

\* op: the operation; pid, env: its argument; result: "Ok", "Err" or "Panic";
\* ret: the envelope handed back; err: the SendError; target: the routing target
\* the operation created or delivered to (0: none).
\* History carried along with it: removed, the Pids a completed shutdown took
\* out of the registry, kept while only spawn / register_service calls have
\* returned since; stale, on a send, its destination was among them.
Op(op, p, e, res, ret, err, t) ==
    [op |-> op, pid |-> p, env |-> e, result |-> res, ret |-> ret,
     err |-> err, target |-> t, removed |-> {}, stale |-> FALSE]

\* Callers of the Node running side by side
Producers == {"c1", "c2"}

\* Nothing enqueued yet. by: the caller behind each message on the cluster
\* channel; log[c]: what caller c has enqueued and the consumer not yet taken;
\* recv: the message the consumer took last
FifoInit ==
    [by |-> <<>>, log |-> [c \in Producers |-> <<>>], recv |-> None]

\* Copies of a Node that can exist at once; a registry or a channel is known
\* by the number of the copy that created it
MaxCopies == 2
Copies == 1 .. MaxCopies

\* Node::new: one Node, whose fields refer to a new registry and a new cluster
\* channel. node[k]: the fields of copy k; regs[h], chans[h]: the registry and
\* the cluster channel behind handle h; boxes[t]: inbound channel of target t;
\* did: the last call made through a copy
ClonesInit ==
    [node  |-> [k \in Copies |->
                  IF k = 1 THEN Some([id |-> SelfId, processes |-> 1, cluster_tx |-> 1])
                           ELSE None],
     regs  |-> [h \in Copies |-> {}],
     chans |-> [h \in Copies |-> <<>>],
     boxes |-> [t \in Targets |-> <<>>],
     did   |-> [op |-> "new", copy |-> 1, pid |-> NoPid, ok |-> TRUE]]

\* Correlation ids a process mints for its timers, and the durations it asks for
MaxTimers == 2
MaxDuration == 2
TimerCids == {[pid |-> MkPid("n1", "a"), handle |-> h] : h \in 1 .. MaxTimers}
Durations == 1 .. MaxDuration

\* No timer asked for. st[c]: where the timer with correlation id c stands;
\* left[c]: ticks until it resolves; reqs: StartTimer / CancelTimer messages
\* the process has emitted and the executor not yet processed; out: Timeout
\* envelopes on their way to the process; count[c]: Timeouts tagged c
\* delivered so far; stopped[c]: a CancelTimer for c was processed before the
\* timer resolved
TimersInit ==
    [st      |-> [c \in TimerCids |-> "idle"],
     left    |-> [c \in TimerCids |-> 0],
     reqs    |-> <<>>,
     out     |-> <<>>,
     count   |-> [c \in TimerCids |-> 0],
     stopped |-> [c \in TimerCids |-> FALSE]]

\* Samples are values 1 .. MaxValue, recorded in at most MaxRecords calls
MaxValue == 3
MaxRecords == 3
Samples == 1 .. MaxValue

\* hdrhistogram::Histogram::<u64>::new(3): three significant digits, lowest
\* discernible value 1, highest trackable value 2 to begin with, all counts
\* zero. With three digits every value below 2048 has a count of its own, at
\* the index equal to the value.
SigFigs == 3
HistogramNew ==
    [sigfig |-> SigFigs, low |-> 1, high |-> 2,
     counts |-> [i \in 0 .. MaxValue |-> 0]]

\* h: the histogram; calls: record calls made; wire: its serialized form once
\* serialized; back: what the serialized form deserialized to
HistoInit ==
    [h |-> HistogramNew, calls |-> 0, wire |-> None, back |-> None]

InitNode ==
    /\ registry = {}
    /\ inbox = [t \in Targets |-> <<>>]
    /\ inbox_open = [t \in Targets |-> TRUE]
    /\ cluster_q = <<>>
    /\ cluster_open = TRUE
    /\ pc = [c \in Threads |-> "idle"]
    /\ told = [c \in Threads |-> FALSE]
    /\ last = Op("none", NoPid, None, "Ok", None, NoErr, 0)

Init ==
    /\ InitNode
    /\ fifo = FifoInit
    /\ clones = ClonesInit
    /\ timers = TimersInit
    /\ histo = HistoInit

\* ------------------------------------------------------------- channels
\* Variant: a message is put at the front of the channel
ChanSendFront(q, open, m) ==
    IF open THEN [ok |-> TRUE, q |-> <<m>> \o q, back |-> None]
            ELSE [ok |-> FALSE, q |-> q, back |-> Some(m)]

\* std::sync::mpsc::Sender::send: Err(SendError(msg)) hands the message back
\* when the receiver is gone, otherwise the message is appended.
ChanSend(q, open, m) ==
    IF open THEN [ok |-> TRUE, q |-> Append(q, m), back |-> None]
            ELSE [ok |-> FALSE, q |-> q, back |-> Some(m)]

\* ----------------------------------------------------- process registry
\* Processes<T> (processes.rs): the concurrent map Pid -> routing target.
Lookup(reg, p) == {x \in reg : x.pid = p}
Registered(reg, p) == Lookup(reg, p) # {}
TargetOf(reg, p) == (CHOOSE x \in Lookup(reg, p) : TRUE).target

\* spawn(pid, process): conflict when pid is registered, else install
ProcessesSpawn(reg, p, t) ==
    IF Registered(reg, p)
    THEN [ok |-> FALSE, reg |-> reg]
    ELSE [ok |-> TRUE, reg |-> reg \cup {[pid |-> p, target |-> t]}]

\* register_service(pid, tx): same conflict rule as spawn
ProcessesRegisterService(reg, p, t) ==
    IF Registered(reg, p)
    THEN [ok |-> FALSE, reg |-> reg]
    ELSE [ok |-> TRUE, reg |-> reg \cup {[pid |-> p, target |-> t]}]

\* kill(pid): remove the entry if present
ProcessesKill(reg, p) == reg \ Lookup(reg, p)

\* send(envelope): look up envelope.to; enqueue on hit, hand back on miss or
\* when the target's channel is closed
ProcessesSend(reg, inb, opn, e) ==
    IF ~Registered(reg, e.to)
    THEN [ok |-> FALSE, inbox |-> inb, back |-> Some(e), target |-> 0]
    ELSE LET t == TargetOf(reg, e.to)
             r == ChanSend(inb[t], opn[t], e)
         IN  [ok |-> r.ok, inbox |-> [inb EXCEPT ![t] = r.q], back |-> r.back,
              target |-> IF r.ok THEN t ELSE 0]

\* shutdown(), first phase: Msg::Shutdown to every registered target
ProcessesBroadcast(reg, inb, opn) ==
    [t \in Targets |->
        IF \E x \in reg : x.target = t
        THEN LET x == CHOOSE y \in reg : y.target = t
             IN  ChanSend(inb[t], opn[t], ShutdownEnvelope(x.pid)).q
        ELSE inb[t]]

\* shutdown(), second phase: clear the registry
ProcessesClear(reg) == {}

\* Removing an entry drops the registry's Sender for its target: the channel
\* can no longer be reached through the Node and is no longer tracked.
TargetsOf(entries) == {x.target : x \in entries}
Forget(f, ts, v) == [t \in Targets |-> IF t \in ts THEN v ELSE f[t]]

\* -------------------------------------------------------------- Node
\* Messages callers have waiting: the Msg::Shutdown of a broadcast is not counted
IsFromCaller(m) == m.msg # ShutdownMsg
FromCallers(q) == Len(SelectSeq(q, IsFromCaller))

RECURSIVE SumQueued(_, _)
SumQueued(f, S) ==
    IF S = {} THEN 0
    ELSE LET t == CHOOSE x \in S : TRUE
         IN  FromCallers(f[t]) + SumQueued(f, S \ {t})

Queued == Len(cluster_q) + SumQueued(inbox, Targets)
Room == Queued < MaxQueued
ClusterRoom == cluster_open => Room

\* Variant: the SendError is built without the Pid
SendMacroDropsPid(q, open, msg, pid, errmsg) ==
    LET r == ChanSend(q, open, msg)
    IN  [q |-> r.q,
         result |-> IF r.ok THEN "Ok" ELSE "Err",
         err |-> IF r.ok THEN NoErr ELSE [msg |-> errmsg, pid |-> None]]

\* send!($s.$t, $msg, $pid, $errmsg): Ok(()) or Err(SendError($errmsg, $pid))
SendMacro(q, open, msg, pid, errmsg) ==
    LET r == ChanSend(q, open, msg)
    IN  [q |-> r.q,
         result |-> IF r.ok THEN "Ok" ELSE "Err",
         err |-> IF r.ok THEN NoErr ELSE [msg |-> errmsg, pid |-> pid]]

\* Variant: the request goes through the registry and empties it
ClusterRequestClearsRegistry(op, p, r) ==
    /\ cluster_q' = r.q
    /\ registry' = ProcessesClear(registry)
    /\ last' = Op(op, p, None, r.result, None, r.err, 0)
    /\ UNCHANGED <<inbox, inbox_open, cluster_open, pc, told>>

ClusterRequest(op, p, r) ==
    /\ cluster_q' = r.q
    /\ last' = Op(op, p, None, r.result, None, r.err, 0)
    /\ UNCHANGED <<registry, inbox, inbox_open, cluster_open, pc, told>>

NodeJoin(n) ==
    ClusterRequest("join", NoPid,
        SendMacro(cluster_q, cluster_open, ClusterJoin(n), None,
                  <<"ClusterMsg::Join", n>>))

NodeLeave(n) ==
    ClusterRequest("leave", NoPid,
        SendMacro(cluster_q, cluster_open, ClusterLeave(n), None,
                  <<"ClusterMsg::Leave", n>>))

NodeClusterStatus(cid) ==
    LET to == cid.pid
    IN  ClusterRequest("cluster_status", to,
            SendMacro(cluster_q, cluster_open, ClusterGetStatus(cid), Some(to),
                      <<"ClusterMsg::GetStatus">>))

\* The process or channel handed to spawn / register_service is a new routing
\* target: it takes a slot no registered target uses.
HasFreeTarget == Targets \ TargetsOf(registry) # {}
FreeTarget == CHOOSE t \in Targets \ TargetsOf(registry) :
                 \A u \in Targets \ TargetsOf(registry) : t <= u

\* Variant: the registry's verdict is dropped and the call reports Ok
SpawnResultIgnoresConflict(r, errmsg) == [result |-> "Ok", err |-> NoErr]

\* The result of Node::spawn / Node::register_service: map_err(|_| "Failed ...")
SpawnResult(r, errmsg) ==
    [result |-> IF r.ok THEN "Ok" ELSE "Err",
     err |-> IF r.ok THEN NoErr ELSE [msg |-> <<errmsg>>, pid |-> None]]

Install(op, p, r, res) ==
    /\ registry' = r.reg
    /\ last' = [Op(op, p, None, res.result, None, res.err,
                   IF r.ok THEN FreeTarget ELSE 0)
                EXCEPT !.removed = last.removed]
    /\ UNCHANGED <<inbox, inbox_open, cluster_q, cluster_open, pc, told>>

\* Variant: spawn replaces whatever is registered under the Pid
NodeSpawnReplaces(p) ==
    /\ Registered(registry, p) \/ HasFreeTarget
    /\ LET t == IF Registered(registry, p) THEN TargetOf(registry, p) ELSE FreeTarget
       IN  /\ registry' = ProcessesKill(registry, p) \cup {[pid |-> p, target |-> t]}
           /\ inbox' = [inbox EXCEPT ![t] = <<>>]
           /\ inbox_open' = [inbox_open EXCEPT ![t] = TRUE]
           /\ last' = Op("spawn", p, None, "Ok", None, NoErr, t)
    /\ UNCHANGED <<cluster_q, cluster_open, pc, told>>

NodeSpawn(p) ==
    /\ Registered(registry, p) \/ HasFreeTarget
    /\ LET r == ProcessesSpawn(registry, p, FreeTarget)
       IN  Install("spawn", p, r, SpawnResult(r, "Failed to spawn process"))

NodeRegisterService(p) ==
    /\ Registered(registry, p) \/ HasFreeTarget
    /\ LET r == ProcessesRegisterService(registry, p, FreeTarget)
       IN  Install("register_service", p, r,
                   SpawnResult(r, "Failed to register service"))

\* Variant: the entry to remove is matched on the Pid's name alone
NodeStopByName(p) ==
    /\ registry' = {x \in registry : x.pid.name # p.name}
    /\ inbox' = Forget(inbox, TargetsOf(registry \ registry'), <<>>)
    /\ inbox_open' = Forget(inbox_open, TargetsOf(registry \ registry'), TRUE)
    /\ last' = Op("stop", p, None, "Ok", None, NoErr,
                  IF Registered(registry, p) THEN TargetOf(registry, p) ELSE 0)
    /\ UNCHANGED <<cluster_q, cluster_open, pc, told>>

\* Variant: stop returns Ok without asking the registry to remove anything
NodeStopLeavesEntry(p) ==
    /\ last' = Op("stop", p, None, "Ok", None, NoErr,
                  IF Registered(registry, p) THEN TargetOf(registry, p) ELSE 0)
    /\ UNCHANGED <<registry, inbox, inbox_open, cluster_q, cluster_open, pc, told>>

NodeStop(p) ==
    /\ registry' = ProcessesKill(registry, p)
    /\ inbox' = Forget(inbox, TargetsOf(registry \ registry'), <<>>)
    /\ inbox_open' = Forget(inbox_open, TargetsOf(registry \ registry'), TRUE)
    /\ last' = Op("stop", p, None, "Ok", None, NoErr,
                  IF Registered(registry, p) THEN TargetOf(registry, p) ELSE 0)
    /\ UNCHANGED <<cluster_q, cluster_open, pc, told>>

\* Variant: the handed-back envelope is rebuilt without its correlation id
UnwrapLosesCorrelation(back) ==
    IF back = None THEN None
    ELSE Some([back[1].env[1] EXCEPT !.correlation_id = None])

\* map_err(|SendError(cluster_msg)| ...): the envelope inside the ClusterMsg
UnwrapClusterEnvelope(back) ==
    IF back = None THEN None ELSE back[1].env

\* Variant: the routing test reads envelope.from.node
SendOutcomeRoutesByFrom(e) ==
    IF e.from.node = SelfId
    THEN LET r == ProcessesSend(registry, inbox, inbox_open, e)
         IN  [ok |-> r.ok, inbox |-> r.inbox, cluster_q |-> cluster_q,
              ret |-> r.back, target |-> r.target]
    ELSE LET r == ChanSend(cluster_q, cluster_open, ClusterEnvelope(e))
         IN  [ok |-> r.ok, inbox |-> inbox, cluster_q |-> r.q,
              ret |-> UnwrapClusterEnvelope(r.back), target |-> 0]

\* Variant: a remote envelope is put on the cluster channel twice
SendOutcomeForwardsTwice(e) ==
    IF e.to.node = SelfId
    THEN LET r == ProcessesSend(registry, inbox, inbox_open, e)
         IN  [ok |-> r.ok, inbox |-> r.inbox, cluster_q |-> cluster_q,
              ret |-> r.back, target |-> r.target]
    ELSE LET r == ChanSend(cluster_q, cluster_open, ClusterEnvelope(e))
             r2 == ChanSend(r.q, cluster_open, ClusterEnvelope(e))
         IN  [ok |-> r2.ok, inbox |-> inbox, cluster_q |-> r2.q,
              ret |-> UnwrapClusterEnvelope(r2.back), target |-> 0]

\* Variant: a local send is refused once its target has been sent Msg::Shutdown
SendOutcomeRefusesAfterShutdown(e) ==
    IF e.to.node = SelfId
    THEN LET r == ProcessesSend(registry, inbox, inbox_open, e)
             told_off == /\ Registered(registry, e.to)
                         /\ \E i \in 1..Len(inbox[TargetOf(registry, e.to)]) :
                              inbox[TargetOf(registry, e.to)][i].msg = ShutdownMsg
         IN  IF told_off
             THEN [ok |-> FALSE, inbox |-> inbox, cluster_q |-> cluster_q,
                   ret |-> Some(e), target |-> 0]
             ELSE [ok |-> r.ok, inbox |-> r.inbox, cluster_q |-> cluster_q,
                   ret |-> r.back, target |-> r.target]
    ELSE LET r == ChanSend(cluster_q, cluster_open, ClusterEnvelope(e))
         IN  [ok |-> r.ok, inbox |-> inbox, cluster_q |-> r.q,
              ret |-> UnwrapClusterEnvelope(r.back), target |-> 0]

\* Variant: a full inbound channel still takes the message
SendOutcomeOnIgnoresFull(e, acc) ==
    IF e.to.node = SelfId
    THEN LET r == ProcessesSend(registry, inbox, inbox_open, e)
         IN  [ok |-> r.ok, inbox |-> r.inbox, cluster_q |-> cluster_q,
              ret |-> r.back, target |-> r.target]
    ELSE LET r == ChanSend(cluster_q, cluster_open, ClusterEnvelope(e))
         IN  [ok |-> r.ok, inbox |-> inbox, cluster_q |-> r.q,
              ret |-> UnwrapClusterEnvelope(r.back), target |-> 0]

\* Node::send as a function of the shared state; acc[t]: the inbound channel
\* of target t takes a message
SendOutcomeOn(e, acc) ==
    IF e.to.node = SelfId
    THEN LET r == ProcessesSend(registry, inbox, acc, e)
         IN  [ok |-> r.ok, inbox |-> r.inbox, cluster_q |-> cluster_q,
              ret |-> r.back, target |-> r.target]
    ELSE LET r == ChanSend(cluster_q, cluster_open, ClusterEnvelope(e))
         IN  [ok |-> r.ok, inbox |-> inbox, cluster_q |-> r.q,
              ret |-> UnwrapClusterEnvelope(r.back), target |-> 0]

\* Inbound channels without a capacity take a message as long as they are open
SendOutcome(e) == SendOutcomeOn(e, inbox_open)

\* The effect of Node::send with outcome r
Deliver(e, r) ==
    /\ inbox' = r.inbox
    /\ cluster_q' = r.cluster_q
    /\ last' = [Op("send", e.to, Some(e), IF r.ok THEN "Ok" ELSE "Err",
                   r.ret, NoErr, r.target)
                EXCEPT !.stale = e.to \in last.removed]
    /\ UNCHANGED <<registry, inbox_open, cluster_open, pc, told>>

NodeSend(e) == Deliver(e, SendOutcome(e))

\* Node::shutdown, line 124: self.cluster_tx.send(ClusterMsg::Shutdown).unwrap()
Unwrap(r) == IF r.ok THEN "Ok" ELSE "Panic"

\* Variant: the registry is shut down without the cluster having been told
ShutdownClusterSkipped(c) ==
    /\ pc[c] = "idle"
    /\ pc' = [pc EXCEPT ![c] = "sd_registry"]
    /\ UNCHANGED <<registry, inbox, inbox_open, cluster_q, cluster_open, told, last>>

\* A panic unwinds the calling thread: the call never reaches line 125
ShutdownCluster(c) ==
    /\ pc[c] = "idle"
    /\ LET r == ChanSend(cluster_q, cluster_open, ClusterShutdown)
       IN  /\ cluster_q' = r.q
           /\ IF Unwrap(r) = "Ok"
              THEN /\ pc' = [pc EXCEPT ![c] = "sd_registry"]
                   /\ told' = [told EXCEPT ![c] = TRUE]
                   /\ UNCHANGED last
              ELSE /\ last' = Op("shutdown", NoPid, None, "Panic", None, NoErr, 0)
                   /\ UNCHANGED <<pc, told>>
    /\ UNCHANGED <<registry, inbox, inbox_open, cluster_open>>

\* Variant: the registry is cleared without the targets having been told
ShutdownBroadcastSkipped(c) ==
    /\ pc[c] = "sd_registry"
    /\ pc' = [pc EXCEPT ![c] = "sd_clear"]
    /\ UNCHANGED <<registry, inbox, inbox_open, cluster_q, cluster_open, told, last>>

\* Node::shutdown, line 125: self.processes.shutdown(), broadcast phase
ShutdownBroadcast(c) ==
    /\ pc[c] = "sd_registry"
    /\ inbox' = ProcessesBroadcast(registry, inbox, inbox_open)
    /\ pc' = [pc EXCEPT ![c] = "sd_clear"]
    /\ UNCHANGED <<registry, inbox_open, cluster_q, cluster_open, told, last>>

\* Variant: shutdown returns with the registry as it was
ShutdownReturnKeepsRegistry(c) ==
    /\ pc[c] = "sd_clear"
    /\ pc' = [pc EXCEPT ![c] = "idle"]
    /\ told' = [told EXCEPT ![c] = FALSE]
    /\ last' = Op("shutdown", NoPid, None, "Ok", None, NoErr, 0)
    /\ UNCHANGED <<registry, inbox, inbox_open, cluster_q, cluster_open>>

\* Node::shutdown, line 125: self.processes.shutdown(), clear phase, and return
ShutdownReturn(c) ==
    /\ pc[c] = "sd_clear"
    /\ registry' = ProcessesClear(registry)
    /\ pc' = [pc EXCEPT ![c] = "idle"]
    /\ told' = [told EXCEPT ![c] = FALSE]
    /\ last' = [Op("shutdown", NoPid, None, "Ok", None, NoErr, 0)
                EXCEPT !.removed = {x.pid : x \in registry}]
    /\ inbox' = Forget(inbox, TargetsOf(registry \ registry'), <<>>)
    /\ inbox_open' = Forget(inbox_open, TargetsOf(registry \ registry'), TRUE)
    /\ UNCHANGED <<cluster_q, cluster_open>>

\* ------------------------------------------------------- environment
\* The cluster server takes the next message off the cluster channel
ClusterRecv ==
    /\ cluster_open /\ cluster_q # <<>>
    /\ cluster_q' = Tail(cluster_q)
    /\ UNCHANGED <<registry, inbox, inbox_open, cluster_open, pc, told, last>>

\* The cluster server drops its Receiver: what is still queued is lost
ClusterClose ==
    /\ cluster_open
    /\ cluster_open' = FALSE
    /\ cluster_q' = <<>>
    /\ UNCHANGED <<registry, inbox, inbox_open, pc, told, last>>

\* The owner of a registered target drops its receiving end: what is still
\* queued is lost
TargetClose(t) ==
    /\ t \in TargetsOf(registry) /\ inbox_open[t]
    /\ inbox_open' = [inbox_open EXCEPT ![t] = FALSE]
    /\ inbox' = [inbox EXCEPT ![t] = <<>>]
    /\ UNCHANGED <<registry, cluster_q, cluster_open, pc, told, last>>

\* A call that would put one more message on a channel waits for Room
Next ==
    \/ \E n \in PeerIds : ClusterRoom /\ NodeJoin(n) /\ UNCHANGED side
    \/ \E n \in PeerIds : ClusterRoom /\ NodeLeave(n) /\ UNCHANGED side
    \/ \E cid \in CorrelationIds : ClusterRoom /\ NodeClusterStatus(cid) /\ UNCHANGED side
    \/ \E p \in Pids : NodeSpawn(p) /\ UNCHANGED side
    \/ \E p \in Pids : NodeRegisterService(p) /\ UNCHANGED side
    \/ \E p \in Pids : NodeStop(p) /\ UNCHANGED side
    \/ \E e \in Envelopes : (SendOutcome(e).ok => Room) /\ NodeSend(e) /\ UNCHANGED side
    \/ \E c \in Threads : ClusterRoom /\ ShutdownCluster(c) /\ UNCHANGED side
    \/ \E c \in Threads : ShutdownBroadcast(c) /\ UNCHANGED side
    \/ \E c \in Threads : ShutdownReturn(c) /\ UNCHANGED side
    \/ ClusterRecv /\ UNCHANGED side
    \/ ClusterClose /\ UNCHANGED side
    \/ \E t \in Targets : TargetClose(t) /\ UNCHANGED side

Spec == Init /\ [][Next]_vars

\* ===================================================================
\* Properties
\* ===================================================================
\* The step is the call send(e), stop(p), or spawn / register_service of p;
\* every call leaves its name and argument in last
SendStep(e) == last'.op = "send" /\ last'.env = Some(e) /\ NodeSend(e)
StopStep(p) == last'.op = "stop" /\ last'.pid = p /\ NodeStop(p)
SpawnStep(p) ==
    /\ last'.op \in {"spawn", "register_service"} /\ last'.pid = p
    /\ NodeSpawn(p) \/ NodeRegisterService(p)

IsLocal(p) == p.node = SelfId
EnqueuedOnTarget(t, e) ==
    /\ inbox' = [inbox EXCEPT ![t] = Append(inbox[t], e)]
    /\ cluster_q' = cluster_q
EnqueuedOnCluster(e) ==
    /\ cluster_q' = Append(cluster_q, ClusterEnvelope(e))
    /\ inbox' = inbox
LastOnCluster(m) == cluster_q # <<>> /\ cluster_q[Len(cluster_q)] = m

\* C1 (as stated): a send to this node's own id never puts the envelope on the
\* cluster channel; a send to any other node id always puts it there as
\* ClusterMsg::Envelope and leaves the registry and the targets alone.
C1_AlwaysOnCluster ==
    [][\A e \in Envelopes : SendStep(e) =>
          IF IsLocal(e.to)
          THEN cluster_q' = cluster_q
          ELSE /\ EnqueuedOnCluster(e)
               /\ UNCHANGED <<registry, inbox, inbox_open>>]_vars

\* C1 (amended): a send to this node's own id never puts the envelope on the
\* cluster channel, registered or not; a send to any other node id leaves the
\* registry and the targets alone and, while the cluster channel is open, puts
\* the envelope there as ClusterMsg::Envelope; when the channel is closed the
\* envelope is handed back and the channel holds nothing new.
C1_Routing ==
    [][\A e \in Envelopes : SendStep(e) =>
          IF IsLocal(e.to)
          THEN cluster_q' = cluster_q
          ELSE /\ UNCHANGED <<registry, inbox, inbox_open>>
               /\ IF cluster_open
                  THEN EnqueuedOnCluster(e) /\ last'.result = "Ok"
                  ELSE /\ cluster_q' = cluster_q
                       /\ last'.result = "Err" /\ last'.ret = Some(e)]_vars

\* A remote send went to the cluster channel while a Pid of the same name is
\* registered on this node
C1_Witness ==
    /\ last.op = "send" /\ last.result = "Ok" /\ ~IsLocal(last.pid)
    /\ Registered(registry, MkPid(SelfId, last.pid.name))
    /\ LastOnCluster(ClusterEnvelope(last.env[1]))

\* C2: whenever Node::send fails, the value returned is an envelope equal to
\* the one passed in, and the registry, the targets' inbound channels and the
\* cluster channel are as before.
C2_FailureReturnsEnvelope ==
    [][\A e \in Envelopes : (SendStep(e) /\ last'.result = "Err") =>
          /\ last'.ret = Some(e)
          /\ UNCHANGED <<registry, inbox, inbox_open, cluster_q, cluster_open>>]_vars

\* A remote send failed on the closed cluster channel and handed the envelope back
C2_Witness ==
    /\ last.op = "send" /\ last.result = "Err" /\ ~IsLocal(last.pid)
    /\ ~cluster_open /\ last.ret = last.env /\ last.ret # None

\* C3: a send either returns Ok with exactly one copy of the envelope, as
\* passed in, enqueued on exactly one channel (the inbound channel of the
\* target registered under envelope.to, or the cluster channel), or returns the
\* envelope with nothing enqueued.
C3_ExactlyOneOutcome ==
    [][\A e \in Envelopes : SendStep(e) =>
          \/ /\ last'.result = "Ok" /\ last'.ret = None
             /\ \/ \E x \in registry : x.pid = e.to /\ EnqueuedOnTarget(x.target, e)
                \/ EnqueuedOnCluster(e)
          \/ /\ last'.result = "Err" /\ last'.ret = Some(e)
             /\ inbox' = inbox /\ cluster_q' = cluster_q]_vars

\* A local send was delivered: the envelope is the newest one on the inbound
\* channel of the target registered under its destination
C3_Witness ==
    /\ last.op = "send" /\ last.result = "Ok" /\ last.target \in Targets
    /\ [pid |-> last.pid, target |-> last.target] \in registry
    /\ inbox[last.target] # <<>>
    /\ inbox[last.target][Len(inbox[last.target])] = last.env[1]

ToPid(p) == {e \in Envelopes : e.to = p}
\* A send of e is delivered to target t's inbound channel
DeliveredTo(e, t) ==
    SendOutcome(e) = [ok |-> TRUE, target |-> t, ret |-> None,
                      inbox |-> [inbox EXCEPT ![t] = Append(inbox[t], e)],
                      cluster_q |-> cluster_q]

\* C4 (as stated): spawn / register_service on a registered Pid returns an
\* error and leaves the entry untouched, an envelope sent to the Pid afterwards
\* still being delivered to the first registration's inbound channel; on an
\* unregistered Pid it succeeds and a send to that Pid right after succeeds.
C4_AnyPid ==
    [][\A p \in Pids : SpawnStep(p) =>
          IF Registered(registry, p)
          THEN /\ last'.result = "Err"
               /\ UNCHANGED <<registry, inbox, inbox_open>>
               /\ \A e \in ToPid(p) : DeliveredTo(e, TargetOf(registry, p))'
          ELSE /\ last'.result = "Ok"
               /\ \A e \in ToPid(p) : SendOutcome(e).ok']_vars

\* C4 (amended): spawn / register_service on a registered Pid returns an error
\* and leaves the entry untouched; on an unregistered Pid it succeeds and the
\* Pid is registered.  When the Pid is a Pid of this node, a send to it after
\* the failed call is still delivered to the first registration's inbound
\* channel as long as that channel is open, and a send right after the
\* successful call succeeds.
C4_Conflict ==
    [][\A p \in Pids : SpawnStep(p) =>
          IF Registered(registry, p)
          THEN /\ last'.result = "Err"
               /\ UNCHANGED <<registry, inbox, inbox_open>>
               /\ (IsLocal(p) /\ inbox_open[TargetOf(registry, p)]) =>
                    \A e \in ToPid(p) : DeliveredTo(e, TargetOf(registry, p))'
          ELSE /\ last'.result = "Ok"
               /\ Registered(registry', p)
               /\ IsLocal(p) => \A e \in ToPid(p) : SendOutcome(e).ok']_vars

\* A spawn met a conflict on a Pid of this node whose first registration has
\* an envelope on its inbound channel
C4_Witness ==
    /\ last.op = "spawn" /\ last.result = "Err" /\ IsLocal(last.pid)
    /\ Registered(registry, last.pid)
    /\ inbox_open[TargetOf(registry, last.pid)]
    /\ inbox[TargetOf(registry, last.pid)] # <<>>

C6_AlwaysFails ==
    (last.op = "send" /\ last.stale) =>
        (last.result = "Err" /\ last.ret = last.env)

\* C6 (amended): when shutdown returns the registry is empty; from then on a
\* send to a Pid of this node that the shutdown removed hands the envelope back
\* for as long as the Pid is not registered again, and an entry enters the
\* registry only by a spawn or register_service, with a new routing target
\* that holds nothing from before.
C6_Finality ==
    [][/\ \A c \in Threads : ShutdownReturn(c) => registry' = {}
       /\ \A e \in Envelopes :
            (SendStep(e) /\ IsLocal(e.to) /\ ~Registered(registry, e.to)) =>
            (last'.result = "Err" /\ last'.ret = Some(e) /\ inbox' = inbox)
       /\ ~(registry' \subseteq registry) =>
            \E p \in Pids :
              /\ SpawnStep(p) /\ last'.result = "Ok"
              /\ registry' = registry \cup {[pid |-> p, target |-> last'.target]}
              /\ last'.target \notin TargetsOf(registry)
              /\ inbox[last'.target] = <<>> /\ inbox_open[last'.target]]_vars

\* A send to a Pid of this node that a completed shutdown removed, not
\* registered again, handed the envelope back
C6_Witness ==
    /\ last.op = "send" /\ last.stale /\ IsLocal(last.pid)
    /\ ~Registered(registry, last.pid)
    /\ last.result = "Err" /\ last.ret = last.env

ShutdownCount(q) == Len(SelectSeq(q, LAMBDA m : m.msg = ShutdownMsg))

\* C7: in every execution of Node::shutdown, ClusterMsg::Shutdown is enqueued
\* on the cluster channel before any target is sent Msg::Shutdown and before
\* the shutdown removes any registry entry.
C7_ClusterToldFirst ==
    [][/\ \A c \in Threads :
            /\ (pc[c] = "idle" /\ pc'[c] # "idle") =>
                 /\ cluster_q' = Append(cluster_q, ClusterShutdown)
                 /\ UNCHANGED <<registry, inbox>>
            /\ (ShutdownBroadcast(c) \/ ShutdownReturn(c)) => told[c]
       /\ (\E t \in Targets : ShutdownCount(inbox'[t]) > ShutdownCount(inbox[t])) =>
            \E c \in Threads : told[c] /\ pc[c] = "sd_registry"]_vars

\* A shutdown that told the cluster has broadcast Msg::Shutdown to a target
\* and has not yet cleared the registry
C7_Witness ==
    \E c \in Threads :
        /\ pc[c] = "sd_clear" /\ told[c]
        /\ \E x \in registry : ShutdownCount(inbox[x.target]) > 0

C9_NeverPanics == last.result # "Panic"

\* C10: Node::stop on a Pid with no entry returns Ok and leaves the registry,
\* every target's inbound channel and the cluster channel as they are; a
\* second stop(pid) right after a first changes nothing.
C10_StopAbsent ==
    [][\A p \in Pids : StopStep(p) =>
          /\ last'.result = "Ok"
          /\ (~Registered(registry, p) \/ (last.op = "stop" /\ last.pid = p)) =>
               UNCHANGED <<registry, inbox, inbox_open, cluster_q, cluster_open>>]_vars

\* A stop on a Pid with no entry returned Ok while another Pid is registered
C10_Witness ==
    /\ last.op = "stop" /\ last.result = "Ok" /\ last.target = 0
    /\ ~Registered(registry, last.pid) /\ registry # {}

\* The step is the call join(n), leave(n) or cluster_status(cid)
JoinStep(n) == last'.op = "join" /\ NodeJoin(n)
LeaveStep(n) == last'.op = "leave" /\ NodeLeave(n)
StatusStep(cid) == last'.op = "cluster_status" /\ NodeClusterStatus(cid)
\* The step is taken by a call of shutdown, at any of its positions
ShutdownStep(c) == ShutdownCluster(c) \/ ShutdownBroadcast(c) \/ ShutdownReturn(c)
\* The message is handed to the cluster channel: appended while it is open
OnClusterIfOpen(m) ==
    cluster_q' = IF cluster_open THEN Append(cluster_q, m) ELSE cluster_q

\* C11 (as stated): join, leave, cluster_status and shutdown leave the set of
\* registered Pids and every target's inbound channel unchanged.
C11_AllBypass ==
    [][(\/ \E n \in PeerIds : JoinStep(n) \/ LeaveStep(n)
        \/ \E cid \in CorrelationIds : StatusStep(cid)
        \/ \E c \in Threads : ShutdownStep(c)) =>
       (registry' = registry /\ inbox' = inbox)]_vars

\* C11 (amended): join, leave and cluster_status bypass the registry: each
\* places its ClusterMsg on the cluster channel while that channel is open and
\* leaves the registry and every target's inbound channel unchanged.  So does
\* the first step of shutdown with ClusterMsg::Shutdown; the rest of shutdown
\* leaves the cluster channel alone and works on the registry: it sends
\* Msg::Shutdown to registered targets and removes the entries.
C11_Bypass ==
    [][/\ \A n \in PeerIds :
            /\ JoinStep(n) =>
                 /\ OnClusterIfOpen(ClusterJoin(n))
                 /\ UNCHANGED <<registry, inbox, inbox_open>>
            /\ LeaveStep(n) =>
                 /\ OnClusterIfOpen(ClusterLeave(n))
                 /\ UNCHANGED <<registry, inbox, inbox_open>>
       /\ \A cid \in CorrelationIds : StatusStep(cid) =>
            /\ OnClusterIfOpen(ClusterGetStatus(cid))
            /\ UNCHANGED <<registry, inbox, inbox_open>>
       /\ \A c \in Threads :
            /\ ShutdownCluster(c) =>
                 /\ OnClusterIfOpen(ClusterShutdown)
                 /\ UNCHANGED <<registry, inbox, inbox_open>>
            /\ (ShutdownBroadcast(c) \/ ShutdownReturn(c)) =>
                 /\ cluster_q' = cluster_q
                 /\ registry' \subseteq registry]_vars

\* A cluster_status request was placed on the cluster channel while a Pid is
\* registered
C11_Witness ==
    /\ last.op = "cluster_status" /\ last.result = "Ok" /\ registry # {}
    /\ \E cid \in CorrelationIds : LastOnCluster(ClusterGetStatus(cid))

\* C17: while the cluster channel is open, join(n), leave(n) and
\* cluster_status(c) each enqueue exactly one message, ClusterMsg::Join(n),
\* ClusterMsg::Leave(n) and ClusterMsg::GetStatus(c), and return Ok; while it
\* is closed they enqueue nothing and return a SendError whose Pid is absent
\* for join and leave and is c.pid for cluster_status.
C17_ClusterRequests ==
    [][/\ \A n \in PeerIds :
            /\ JoinStep(n) =>
                 IF cluster_open
                 THEN /\ cluster_q' = Append(cluster_q, ClusterJoin(n))
                      /\ last'.result = "Ok" /\ last'.err = NoErr
                 ELSE /\ cluster_q' = cluster_q
                      /\ last'.result = "Err" /\ last'.err.pid = None
            /\ LeaveStep(n) =>
                 IF cluster_open
                 THEN /\ cluster_q' = Append(cluster_q, ClusterLeave(n))
                      /\ last'.result = "Ok" /\ last'.err = NoErr
                 ELSE /\ cluster_q' = cluster_q
                      /\ last'.result = "Err" /\ last'.err.pid = None
       /\ \A cid \in CorrelationIds : StatusStep(cid) =>
            IF cluster_open
            THEN /\ cluster_q' = Append(cluster_q, ClusterGetStatus(cid))
                 /\ last'.result = "Ok" /\ last'.err = NoErr
            ELSE /\ cluster_q' = cluster_q
                 /\ last'.result = "Err" /\ last'.err.pid = Some(cid.pid)]_vars

\* A cluster_status on the closed cluster channel returned a SendError that
\* carries the Pid of its correlation id
C17_Witness ==
    /\ last.op = "cluster_status" /\ last.result = "Err" /\ ~cluster_open
    /\ \E cid \in CorrelationIds : last.err.pid = Some(cid.pid)

\* A send of e fails and hands the envelope back, nothing being enqueued
HandedBack(e) ==
    SendOutcome(e) = [ok |-> FALSE, target |-> 0, ret |-> Some(e),
                      inbox |-> inbox, cluster_q |-> cluster_q]
\* The entries of the Pids other than p, and their inbound channels, are kept
OthersKept(p) ==
    /\ {x \in registry' : x.pid # p} = {x \in registry : x.pid # p}
    /\ \A x \in registry : x.pid # p =>
         /\ inbox'[x.target] = inbox[x.target]
         /\ inbox_open'[x.target] = inbox_open[x.target]

BehindShutdown(q) ==
    \E i, j \in 1..Len(q) : i < j /\ q[i].msg = ShutdownMsg /\ q[j].msg # ShutdownMsg

TargetCap == 1

Full(t) == Len(inbox[t]) >= TargetCap
Accepting == [t \in Targets |-> inbox_open[t] /\ ~Full(t)]

\* Node::send when the inbound channels are bounded
BoundedSend(e) == Deliver(e, SendOutcomeOn(e, Accepting))

\* The owner of a target receives the next message
TargetRecv(t) ==
    /\ inbox_open[t] /\ inbox[t] # <<>>
    /\ inbox' = [inbox EXCEPT ![t] = Tail(@)]
    /\ UNCHANGED <<registry, inbox_open, cluster_q, cluster_open, pc, told, last>>

NextBounded ==
    \/ \E p \in Pids : NodeSpawn(p) /\ UNCHANGED side
    \/ \E p \in Pids : NodeRegisterService(p) /\ UNCHANGED side
    \/ \E p \in Pids : NodeStop(p) /\ UNCHANGED side
    \/ \E e \in Envelopes : (e.to.node # SelfId => ClusterRoom) /\ BoundedSend(e) /\ UNCHANGED side
    \/ \E t \in Targets : TargetRecv(t) /\ UNCHANGED side
    \/ \E t \in Targets : TargetClose(t) /\ UNCHANGED side

SpecBounded == Init /\ [][NextBounded]_vars

\* What the caller of send gets when the destination is not registered
MissOutcome(e) ==
    [ok |-> FALSE, target |-> 0, ret |-> Some(e),
     inbox |-> inbox, cluster_q |-> cluster_q]

\* The registered target of e.to cannot take a message: closed or full
Refusing(e) ==
    /\ IsLocal(e.to) /\ Registered(registry, e.to)
    /\ ~Accepting[TargetOf(registry, e.to)]

\* C16: a send to a registered Pid whose inbound channel is closed or full
\* returns at once: the call is never disabled, it hands back the envelope
\* with Err, leaves every channel and the registry as they were, and gives the
\* caller exactly what a send to an unregistered Pid gives.
C16_ClosedOrFull ==
    /\ [](\A e \in Envelopes : IsLocal(e.to) => ENABLED BoundedSend(e))
    /\ [][\A e \in Envelopes :
            (last'.op = "send" /\ Refusing(e) /\ BoundedSend(e)) =>
                /\ SendOutcomeOn(e, Accepting) = MissOutcome(e)
                /\ last' = [Op("send", e.to, Some(e), "Err", Some(e), NoErr, 0)
                            EXCEPT !.stale = e.to \in last.removed]
                /\ UNCHANGED <<registry, inbox, inbox_open, cluster_q>>]_vars

\* A send to a registered Pid has failed although its target's channel is
\* open: the channel is full
C16_Witness ==
    /\ last.op = "send" /\ last.result = "Err" /\ last.ret = last.env
    /\ IsLocal(last.pid) /\ Registered(registry, last.pid)
    /\ inbox_open[TargetOf(registry, last.pid)]
    /\ Full(TargetOf(registry, last.pid))

\* ------------------------------------------- order on the cluster channel
\* Several callers use the Node side by side; the cluster channel holds up to
\* MaxFifo messages.
MaxFifo == 3

FifoRoom == cluster_open => Len(cluster_q) < MaxFifo

\* Caller c has made a call that enqueues m when ok
Sent(c, m, ok) ==
    fifo' = IF ok THEN [fifo EXCEPT !.by = Append(@, c),
                                    !.log[c] = Append(@, m)]
                  ELSE fifo

FifoJoin(c, n) ==
    NodeJoin(n) /\ Sent(c, ClusterJoin(n), last'.result = "Ok")

FifoLeave(c, n) ==
    NodeLeave(n) /\ Sent(c, ClusterLeave(n), last'.result = "Ok")

FifoStatus(c, cid) ==
    NodeClusterStatus(cid) /\ Sent(c, ClusterGetStatus(cid), last'.result = "Ok")

\* send to a Pid of another node
FifoSend(c, e) ==
    /\ e.to.node # SelfId
    /\ NodeSend(e) /\ Sent(c, ClusterEnvelope(e), last'.result = "Ok")

\* shutdown, run by c on thread t
FifoShutdown(c, t) ==
    ShutdownCluster(t) /\ Sent(c, ClusterShutdown, pc'[t] = "sd_registry")

\* The cluster server takes the next message
FifoRecv ==
    /\ ClusterRecv
    /\ fifo' = [by |-> Tail(fifo.by),
                log |-> [fifo.log EXCEPT ![Head(fifo.by)] = Tail(@)],
                recv |-> Some(Head(cluster_q))]

\* The cluster server goes away: what is queued is never received
FifoClose ==
    /\ ClusterClose
    /\ fifo' = [FifoInit EXCEPT !.recv = fifo.recv]

NextFifo ==
    \/ \E c \in Producers, n \in PeerIds : FifoRoom /\ FifoJoin(c, n) /\ UNCHANGED sideButFifo
    \/ \E c \in Producers, n \in PeerIds : FifoRoom /\ FifoLeave(c, n) /\ UNCHANGED sideButFifo
    \/ \E c \in Producers, cid \in CorrelationIds : FifoRoom /\ FifoStatus(c, cid) /\ UNCHANGED sideButFifo
    \/ \E c \in Producers, e \in Envelopes : FifoRoom /\ FifoSend(c, e) /\ UNCHANGED sideButFifo
    \/ \E c \in Producers, t \in Threads : FifoRoom /\ FifoShutdown(c, t) /\ UNCHANGED sideButFifo
    \/ \E t \in Threads : ShutdownBroadcast(t) /\ UNCHANGED side
    \/ \E t \in Threads : ShutdownReturn(t) /\ UNCHANGED side
    \/ FifoRecv /\ UNCHANGED sideButFifo
    \/ FifoClose /\ UNCHANGED sideButFifo

SpecFifo == Init /\ [][NextFifo]_vars

RECURSIVE SumLen(_, _)
SumLen(f, S) ==
    IF S = {} THEN 0
    ELSE LET c == CHOOSE x \in S : TRUE
         IN  Len(f[c]) + SumLen(f, S \ {c})

\* Every message a caller enqueued and the consumer has not taken is on the
\* channel exactly once
OnceOnChannel ==
    /\ Len(cluster_q) = Len(fifo.by)
    /\ Len(cluster_q) = SumLen(fifo.log, Producers)

\* C12: whenever the cluster consumer takes a message, it is the oldest one
\* its producer enqueued and has not yet had received, whatever the other
\* producers did in between; and a message is on the channel once, so it is
\* received at most once.
C12_FifoPerProducer ==
    /\ []OnceOnChannel
    /\ [][(fifo'.by # fifo.by /\ FifoRecv) =>
             LET c == Head(fifo.by)
             IN  /\ fifo.log[c] # <<>>
                 /\ Head(cluster_q) = Head(fifo.log[c])
                 /\ fifo'.log[c] = Tail(fifo.log[c])
                 /\ cluster_q' = Tail(cluster_q)]_vars

\* The consumer has taken a Join of c1 while a message of c2 and then a later
\* Leave of c1 are still waiting
C12_Witness ==
    /\ fifo.recv # None /\ fifo.recv[1].type = "Join"
    /\ fifo.by = <<"c2", "c1">>
    /\ fifo.log["c1"] # <<>> /\ Head(fifo.log["c1"]).type = "Leave"
    /\ cluster_q[2] = Head(fifo.log["c1"])

\* ------------------------------------------------------ copies of a Node
\* #[derive(Clone)] on Node and on Processes<T>: the copy's fields are clones
\* of the original's; a cloned handle refers to what the original refers to.
Exists(k) == clones.node[k] # None
Fields(k) == clones.node[k][1]
RegOf(k) == clones.regs[Fields(k).processes]
ChanOf(k) == clones.chans[Fields(k).cluster_tx]

\* Variant: the copy gets a registry and a channel of its own, filled like the
\* original's
CloneNodeDeep(k, k2) ==
    /\ Exists(k) /\ ~Exists(k2)
    /\ clones' = [clones EXCEPT
           !.node[k2] = Some([id |-> Fields(k).id, processes |-> k2, cluster_tx |-> k2]),
           !.regs[k2] = RegOf(k),
           !.chans[k2] = ChanOf(k),
           !.did = [op |-> "clone", copy |-> k2, pid |-> NoPid, ok |-> TRUE]]

\* node.clone(), kept as copy k2
CloneNode(k, k2) ==
    /\ Exists(k) /\ ~Exists(k2)
    /\ clones' = [clones EXCEPT
           !.node[k2] = Some([id |-> Fields(k).id,
                              processes |-> Fields(k).processes,
                              cluster_tx |-> Fields(k).cluster_tx]),
           !.did = [op |-> "clone", copy |-> k2, pid |-> NoPid, ok |-> TRUE]]

\* Targets no registry refers to
FreeSlots == Targets \ UNION {TargetsOf(clones.regs[h]) : h \in Copies}
FreeSlot == CHOOSE t \in FreeSlots : \A u \in FreeSlots : t <= u

Called(op, k, p, ok) == [op |-> op, copy |-> k, pid |-> p, ok |-> ok]

\* spawn through copy k
CopySpawn(k, p) ==
    /\ Exists(k)
    /\ Registered(RegOf(k), p) \/ FreeSlots # {}
    /\ LET r == ProcessesSpawn(RegOf(k), p, FreeSlot)
       IN  clones' = [clones EXCEPT !.regs[Fields(k).processes] = r.reg,
                                    !.did = Called("spawn", k, p, r.ok)]

\* register_service through copy k
CopyRegisterService(k, p) ==
    /\ Exists(k)
    /\ Registered(RegOf(k), p) \/ FreeSlots # {}
    /\ LET r == ProcessesRegisterService(RegOf(k), p, FreeSlot)
       IN  clones' = [clones EXCEPT !.regs[Fields(k).processes] = r.reg,
                                    !.did = Called("register_service", k, p, r.ok)]

\* stop through copy k
CopyStop(k, p) ==
    /\ Exists(k)
    /\ LET reg == ProcessesKill(RegOf(k), p)
       IN  clones' = [clones EXCEPT
               !.regs[Fields(k).processes] = reg,
               !.boxes = [t \in Targets |->
                            IF t \in TargetsOf(RegOf(k) \ reg) THEN <<>> ELSE @[t]],
               !.did = Called("stop", k, p, TRUE)]

AllOpen == [t \in Targets |-> TRUE]

\* What send through copy k does with e
CopyOutcome(k, e) ==
    IF e.to.node = Fields(k).id
    THEN LET r == ProcessesSend(RegOf(k), clones.boxes, AllOpen, e)
         IN  [ok |-> r.ok, boxes |-> r.inbox, chan |-> ChanOf(k)]
    ELSE LET r == ChanSend(ChanOf(k), TRUE, ClusterEnvelope(e))
         IN  [ok |-> r.ok, boxes |-> clones.boxes, chan |-> r.q]

\* send through copy k
CopySend(k, e) ==
    /\ Exists(k)
    /\ LET r == CopyOutcome(k, e)
       IN  clones' = [clones EXCEPT !.boxes = r.boxes,
                                    !.chans[Fields(k).cluster_tx] = r.chan,
                                    !.did = Called("send", k, e.to, r.ok)]

\* join through copy k
CopyJoin(k, n) ==
    /\ Exists(k)
    /\ LET r == SendMacro(ChanOf(k), TRUE, ClusterJoin(n), None,
                          <<"ClusterMsg::Join", n>>)
       IN  clones' = [clones EXCEPT !.chans[Fields(k).cluster_tx] = r.q,
                                    !.did = Called("join", k, NoPid, r.result = "Ok")]

\* shutdown through copy k, run to its end
CopyShutdown(k) ==
    /\ Exists(k)
    /\ clones' = [clones EXCEPT
           !.chans[Fields(k).cluster_tx] = ChanSend(ChanOf(k), TRUE, ClusterShutdown).q,
           !.boxes = ProcessesBroadcast(RegOf(k), clones.boxes, AllOpen),
           !.regs[Fields(k).processes] = ProcessesClear(RegOf(k)),
           !.did = Called("shutdown", k, NoPid, TRUE)]

\* Consumers empty a channel
CopyChanRecv(h) ==
    /\ clones.chans[h] # <<>>
    /\ clones' = [clones EXCEPT !.chans[h] = Tail(@)]

CopyBoxRecv(t) ==
    /\ clones.boxes[t] # <<>>
    /\ clones' = [clones EXCEPT !.boxes[t] = Tail(@)]

\* A call that enqueues waits until the consumers have emptied the channels
CopyRoom ==
    /\ \A h \in Copies : clones.chans[h] = <<>>
    /\ \A t \in Targets : clones.boxes[t] = <<>>

NextClones ==
    \/ \E k, k2 \in Copies : CloneNode(k, k2) /\ UNCHANGED <<node, sideButClones>>
    \/ \E k \in Copies, p \in Pids : CopySpawn(k, p) /\ UNCHANGED <<node, sideButClones>>
    \/ \E k \in Copies, p \in Pids :
           CopyRegisterService(k, p) /\ UNCHANGED <<node, sideButClones>>
    \/ \E k \in Copies, p \in Pids : CopyStop(k, p) /\ UNCHANGED <<node, sideButClones>>
    \/ \E k \in Copies, e \in Envelopes :
           CopyRoom /\ CopySend(k, e) /\ UNCHANGED <<node, sideButClones>>
    \/ \E k \in Copies, n \in PeerIds :
           CopyRoom /\ CopyJoin(k, n) /\ UNCHANGED <<node, sideButClones>>
    \/ \E k \in Copies : CopyRoom /\ CopyShutdown(k) /\ UNCHANGED <<node, sideButClones>>
    \/ \E h \in Copies : CopyChanRecv(h) /\ UNCHANGED <<node, sideButClones>>
    \/ \E t \in Targets : CopyBoxRecv(t) /\ UNCHANGED <<node, sideButClones>>

SpecClones == Init /\ [][NextClones]_vars

CopyStep(op) == clones'.did # clones.did /\ clones'.did.op = op

\* A send to p through copy k finds a target
RoutableVia(k, p) ==
    \A e \in Envelopes : e.to = p => CopyOutcome(k, e).ok

StartTimerReq(c, d) == [msg |-> "StartTimer", ms |-> d, cid |-> c]
CancelTimerReq(c) == [msg |-> "CancelTimer", ms |-> 0, cid |-> c]
TimeoutEnvelope(c) ==
    [from |-> c.pid, to |-> c.pid, msg |-> "Timeout", correlation_id |-> Some(c)]

\* The process emits StartTimer(d) with a correlation id it has not used
ProcStartTimer(c, d) ==
    /\ timers.st[c] = "idle"
    /\ timers' = [timers EXCEPT !.st[c] = "asked",
                                !.reqs = Append(@, StartTimerReq(c, d))]

\* The process emits CancelTimer(Some(c)) for a timer it asked for
ProcCancelTimer(c) ==
    /\ timers.st[c] # "idle"
    /\ \A i \in 1 .. Len(timers.reqs) : timers.reqs[i] # CancelTimerReq(c)
    /\ timers' = [timers EXCEPT !.reqs = Append(@, CancelTimerReq(c))]

\* Variant: a CancelTimer is taken off the queue and the timer left running
ExecProcessKeepsTimer ==
    /\ timers.reqs # <<>>
    /\ LET r == Head(timers.reqs)
           c == r.cid
       IN  timers' =
             IF r.msg = "StartTimer"
             THEN [timers EXCEPT !.reqs = Tail(@), !.st[c] = "armed", !.left[c] = r.ms]
             ELSE IF timers.st[c] = "armed"
                  THEN [timers EXCEPT !.reqs = Tail(@), !.stopped[c] = TRUE]
                  ELSE [timers EXCEPT !.reqs = Tail(@)]

\* The executor processes the next message of the process: StartTimer arms the
\* timer; CancelTimer removes it if it has not resolved
ExecProcess ==
    /\ timers.reqs # <<>>
    /\ LET r == Head(timers.reqs)
           c == r.cid
       IN  timers' =
             IF r.msg = "StartTimer"
             THEN [timers EXCEPT !.reqs = Tail(@), !.st[c] = "armed", !.left[c] = r.ms]
             ELSE IF timers.st[c] = "armed"
                  THEN [timers EXCEPT !.reqs = Tail(@), !.st[c] = "cancelled",
                                      !.left[c] = 0, !.stopped[c] = TRUE]
                  ELSE [timers EXCEPT !.reqs = Tail(@)]

\* Time passes for the timer of c
TimerTick(c) ==
    /\ timers.st[c] = "armed" /\ timers.left[c] > 1
    /\ timers' = [timers EXCEPT !.left[c] = @ - 1]

\* The timer of c resolves: one Timeout tagged c goes to the process
TimerResolve(c) ==
    /\ timers.st[c] = "armed" /\ timers.left[c] = 1
    /\ timers' = [timers EXCEPT !.st[c] = "resolved", !.left[c] = 0,
                                !.out = Append(@, TimeoutEnvelope(c))]

\* The process is handed the next Timeout
ProcTimeout ==
    /\ timers.out # <<>>
    /\ LET c == Head(timers.out).correlation_id[1]
       IN  timers' = [timers EXCEPT !.out = Tail(@), !.count[c] = @ + 1]

TimerAdvance(c) ==
    (TimerTick(c) \/ TimerResolve(c)) /\ UNCHANGED <<node, sideButTimers>>

TimerDeliver == ProcTimeout /\ UNCHANGED <<node, sideButTimers>>

NextTimers ==
    \/ \E c \in TimerCids, d \in Durations :
           ProcStartTimer(c, d) /\ UNCHANGED <<node, sideButTimers>>
    \/ \E c \in TimerCids : ProcCancelTimer(c) /\ UNCHANGED <<node, sideButTimers>>
    \/ ExecProcess /\ UNCHANGED <<node, sideButTimers>>
    \/ \E c \in TimerCids : TimerTick(c) /\ UNCHANGED <<node, sideButTimers>>
    \/ \E c \in TimerCids : TimerResolve(c) /\ UNCHANGED <<node, sideButTimers>>
    \/ TimerDeliver

\* A running timer resolves and a Timeout under way is delivered
SpecTimers ==
    /\ Init /\ [][NextTimers]_vars
    /\ \A c \in TimerCids : WF_vars(TimerAdvance(c))
    /\ WF_vars(TimerDeliver)

\* C14: at most one Timeout tagged c is ever delivered; none is delivered
\* before the timer of c has resolved; none is ever delivered once a
\* CancelTimer for c was processed before the timer resolved; and a timer that
\* is running gets its one Timeout delivered unless such a CancelTimer is
\* processed first.
C14_TimerPairing ==
    /\ [](\A c \in TimerCids :
            /\ timers.count[c] <= 1
            /\ timers.count[c] = 1 => timers.st[c] = "resolved"
            /\ timers.stopped[c] => timers.count[c] = 0)
    /\ \A c \in TimerCids :
          (timers.st[c] = "armed") ~> (timers.count[c] = 1 \/ timers.stopped[c])

\* One timer has had its Timeout delivered although a CancelTimer for it came
\* late, and another was cancelled in time and has none
C14_Witness ==
    \E c, c2 \in TimerCids :
        /\ timers.count[c] = 1 /\ ~timers.stopped[c]
        /\ timers.stopped[c2] /\ timers.count[c2] = 0 /\ timers.st[c2] = "cancelled"
        /\ timers.reqs = <<>> /\ timers.out = <<>>

\* ---------------------------------------------------------- Histogram
\* Samples recorded in one call: record(v) once, or in a loop as in the test
Times == {1, 64}

\* hist.0.record(v), n times
HistRecordN(h, v, n) == [h EXCEPT !.counts[v] = @ + n]

RECURSIVE SumCounts(_, _)
SumCounts(counts, i) ==
    IF i < 0 THEN 0 ELSE counts[i] + SumCounts(counts, i - 1)

\* hist.0.len(): the number of samples
HistLen(h) == SumCounts(h.counts, MaxValue)

Recorded(h) == {i \in 0 .. MaxValue : h.counts[i] > 0}
HistMax(h) == IF Recorded(h) = {} THEN 0
              ELSE CHOOSE i \in Recorded(h) : \A j \in Recorded(h) : j <= i
HistMinNz(h) == IF Recorded(h) \ {0} = {} THEN 0
                ELSE CHOOSE i \in Recorded(h) \ {0} : \A j \in Recorded(h) \ {0} : i <= j

\* hist.0.value_at_percentile(p), p given in tenths of a percent: the value at
\* which the running count reaches ceil(p% of the samples), at least 1
ValueAtPercentile(h, permille) ==
    LET want == (permille * HistLen(h) + 999) \div 1000
        need == IF want = 0 THEN 1 ELSE want
        reach == {i \in 0 .. MaxValue : SumCounts(h.counts, i) >= need}
    IN  IF reach = {} THEN 0
        ELSE CHOOSE i \in reach : \A j \in reach : i <= j

\* #[derive(PartialEq)] on Histogram: the equality of the wrapped histograms
HistEq(a, b) ==
    /\ a.low = b.low /\ a.sigfig = b.sigfig
    /\ HistLen(a) = HistLen(b)
    /\ HistMax(a) = HistMax(b) /\ HistMinNz(a) = HistMinNz(b)
    /\ \A i \in 0 .. MaxValue : a.counts[i] = b.counts[i]

\* The V2 format writes each count, or the negated length of a run of zero
\* counts, as a zig-zag LEB128 number, up to the count of the largest value
ZigZag(n) == IF n >= 0 THEN 2 * n ELSE -2 * n - 1
UnZigZag(z) == IF z % 2 = 0 THEN z \div 2 ELSE -((z + 1) \div 2)

RECURSIVE Varint(_)
Varint(z) ==
    IF z < 128 THEN <<z>> ELSE <<128 + (z % 128)>> \o Varint(z \div 128)

RECURSIVE ReadVarint(_, _)
ReadVarint(bytes, pos) ==
    IF bytes[pos] < 128
    THEN [val |-> bytes[pos], next |-> pos + 1]
    ELSE LET r == ReadVarint(bytes, pos + 1)
         IN  [val |-> (bytes[pos] - 128) + 128 * r.val, next |-> r.next]

RECURSIVE ZeroRun(_, _, _)
ZeroRun(counts, i, lim) ==
    IF i > lim \/ counts[i] # 0 THEN 0 ELSE 1 + ZeroRun(counts, i + 1, lim)

RECURSIVE EncodeCounts(_, _, _)
EncodeCounts(counts, i, lim) ==
    IF i > lim THEN <<>>
    ELSE IF counts[i] = 0
         THEN LET r == ZeroRun(counts, i, lim)
              IN  Varint(ZigZag(-r)) \o EncodeCounts(counts, i + r, lim)
         ELSE Varint(ZigZag(counts[i])) \o EncodeCounts(counts, i + 1, lim)

\* V2Serializer::new().serialize(&self.0, &mut buf)
EncodeV2(h) ==
    LET payload == EncodeCounts(h.counts, 0, HistMax(h))
    IN  [cookie |-> "V2", payload_len |-> Len(payload), normalizing_offset |-> 0,
         sigfig |-> h.sigfig, low |-> h.low, high |-> h.high, ratio |-> 1,
         payload |-> payload]

\* impl Serialize for Histogram: the V2 buffer as one serde byte string
HistSerializeTo(h) == [bytes |-> EncodeV2(h)]

RECURSIVE DecodeCountsNoRuns(_, _, _, _)
\* Variant: a run of zero counts is read as a single zero count
DecodeCountsNoRuns(bytes, pos, idx, counts) ==
    IF pos > Len(bytes) THEN counts
    ELSE LET v == ReadVarint(bytes, pos)
             n == UnZigZag(v.val)
         IN  IF n < 0
             THEN DecodeCountsNoRuns(bytes, v.next, idx + 1, counts)
             ELSE DecodeCountsNoRuns(bytes, v.next, idx + 1,
                      IF idx \in DOMAIN counts THEN [counts EXCEPT ![idx] = n]
                                               ELSE counts)

RECURSIVE DecodeCounts(_, _, _, _)
\* Reading the counts back: a negative number skips that many zero counts
DecodeCounts(bytes, pos, idx, counts) ==
    IF pos > Len(bytes) THEN counts
    ELSE LET v == ReadVarint(bytes, pos)
             n == UnZigZag(v.val)
         IN  IF n < 0
             THEN DecodeCounts(bytes, v.next, idx - n, counts)
             ELSE DecodeCounts(bytes, v.next, idx + 1,
                      IF idx \in DOMAIN counts THEN [counts EXCEPT ![idx] = n]
                                               ELSE counts)

\* hdrhistogram Deserializer::new().deserialize(&mut &buf[..]): a histogram
\* with the bounds and precision of the header and the counts of the payload
DecodeV2(buf) ==
    IF buf.cookie # "V2" \/ buf.payload_len # Len(buf.payload)
    THEN None
    ELSE Some([sigfig |-> buf.sigfig, low |-> buf.low, high |-> buf.high,
               counts |-> DecodeCounts(buf.payload, 1, 0,
                                       [i \in 0 .. MaxValue |-> 0])])

\* impl Deserialize for Histogram: Ok(Histogram(h)), or None for Err
HistDeserializeFrom(w) == DecodeV2(w.bytes)

HistRecord(v, n) ==
    /\ histo.wire = None /\ histo.calls < MaxRecords
    /\ histo' = [histo EXCEPT !.h = HistRecordN(@, v, n), !.calls = @ + 1]

HistSerialize ==
    /\ histo.wire = None
    /\ histo' = [histo EXCEPT !.wire = Some(HistSerializeTo(histo.h))]

HistDeserialize ==
    /\ histo.wire # None /\ histo.back = None
    /\ histo' = [histo EXCEPT !.back = Some(HistDeserializeFrom(histo.wire[1]))]

NextHisto ==
    \/ \E v \in Samples, n \in Times :
           HistRecord(v, n) /\ UNCHANGED <<node, sideButHisto>>
    \/ HistSerialize /\ UNCHANGED <<node, sideButHisto>>
    \/ HistDeserialize /\ UNCHANGED <<node, sideButHisto>>

SpecHisto == Init /\ [][NextHisto]_vars

====
